---- MODULE Spec2Model ----
(***************************************************************************)
(* Budget accounting of the fuel-tracking application: the DataService     *)
(* operations calculateMonthlyUsage, getMonthlyBudgetStatus and            *)
(* getBudgetAlerts over the remote record store (users, trips).            *)
(*                                                                         *)
(* An optional JavaScript value is a sequence: <<>> is undefined/missing,  *)
(* <<v>> is the value v.  A user identifier is a string, "" the empty or   *)
(* undefined one.  A point in time is a natural number of instants since   *)
(* the first instant of January of BaseYear.                               *)
(***************************************************************************)
EXTENDS Integers, Sequences, FiniteSets, TLC

VARIABLES users, trips, now, call, ret,
          vehicleDocs, ctx, pending, auth, obdConnected, logoutCall, log

vars == <<users, trips, now, call, ret,
          vehicleDocs, ctx, pending, auth, obdConnected, logoutCall, log>>

(* The state of the budget accounting *)
serviceVars == <<users, trips, now, call, ret>>

(* The vehicles collection, the UserProvider and what it talks to *)
appVars == <<vehicleDocs, ctx, pending, auth, obdConnected, logoutCall, log>>

-----------------------------------------------------------------------------
(* Bounds of the model *)

MaxTrips == 2
InstantsPerMonth == 2
BaseYear == 2024

(* Date.getMonth ranges over 0..11 *)
MonthsPerYear == 12

-----------------------------------------------------------------------------
(* Calendar: Date.getMonth, Date.getFullYear *)

getMonth(t) == (t \div InstantsPerMonth) % MonthsPerYear

getFullYear(t) == BaseYear + (t \div (InstantsPerMonth * MonthsPerYear))

FirstInstant(y, m) == ((y - BaseYear) * MonthsPerYear + m) * InstantsPerMonth

LastInstant(y, m) == FirstInstant(y, m) + InstantsPerMonth - 1

-----------------------------------------------------------------------------
(* Optional values *)

None == <<>>

Some(v) == <<v>>

(* x ?? d *)
Coalesce(x, d) == IF x = None THEN d ELSE x[1]

(* x || d, for a number x *)
OrDefault(x, d) == IF x = None \/ x[1] = 0 THEN d ELSE x[1]

-----------------------------------------------------------------------------
(* Records of the store *)

NoDoc == [exists |-> FALSE, type |-> None, personalBudget |-> None,
          monthlyFuelLimit |-> None]

UserDoc(type, pb, mfl) == [exists |-> TRUE, type |-> type, personalBudget |-> pb,
                           monthlyFuelLimit |-> mfl]

Trip(userId, startTime, endTime, cost) ==
    [userId |-> userId, startTime |-> startTime, endTime |-> endTime, cost |-> cost]

-----------------------------------------------------------------------------
(* Exact quotients: usage / limit * 100 is kept as a reduced fraction *)

RECURSIVE Gcd(_, _)
Gcd(a, b) == IF b = 0 THEN a ELSE Gcd(b, a % b)

Ratio(n, d) == LET g == Gcd(n, d) IN [num |-> n \div g, den |-> d \div g]

Zero == Ratio(0, 1)

(* Variant: the threshold itself is excluded *)
AtLeastStrict(r, k) == r.num > k * r.den

AtLeast(r, k) == r.num >= k * r.den

-----------------------------------------------------------------------------
(* DataService.getTrips: the trips stored under userId, in store order *)

(* Variant: the query has no where('userId', '==', userId) *)
getTripsOfAll(ts, userId) ==
    IF userId = "" THEN <<>> ELSE ts

getTrips(ts, userId) ==
    IF userId = "" THEN <<>>
    ELSE SelectSeq(ts, LAMBDA trip : trip.userId = userId)

(* DataService.calculateMonthlyUsage, its pure parts *)

(* Variant: month || currentDate.getMonth() *)
targetMonthFalsy(month, currentDate) == OrDefault(month, getMonth(currentDate))

targetMonth(month, currentDate) == Coalesce(month, getMonth(currentDate))

targetYear(year, currentDate) == Coalesce(year, getFullYear(currentDate))

(* Variant: the year is not compared *)
monthlyTripsAnyYear(ts, tMonth, tYear) ==
    SelectSeq(ts, LAMBDA trip : getMonth(trip.startTime) = tMonth)

(* Variant: a finished trip is dated by its endTime *)
monthlyTripsByEnd(ts, tMonth, tYear) ==
    SelectSeq(ts, LAMBDA trip :
        LET tripDate == IF trip.endTime = None THEN trip.startTime
                        ELSE trip.endTime[1]
        IN  getMonth(tripDate) = tMonth /\ getFullYear(tripDate) = tYear)

(* Variant: the filter compares with a fresh new Date() *)
monthlyTripsOfToday(ts, tMonth, tYear) ==
    SelectSeq(ts, LAMBDA trip : /\ getMonth(trip.startTime) = getMonth(now)
                                /\ getFullYear(trip.startTime) = getFullYear(now))

monthlyTrips(ts, tMonth, tYear) ==
    SelectSeq(ts, LAMBDA trip : /\ getMonth(trip.startTime) = tMonth
                                /\ getFullYear(trip.startTime) = tYear)

tripCost(trip) == OrDefault(trip.cost, 0)

RECURSIVE reduceCost(_, _)
reduceCost(ts, sum) ==
    IF ts = <<>> THEN sum ELSE reduceCost(Tail(ts), sum + tripCost(Head(ts)))

totalCost(ts, tMonth, tYear) == reduceCost(monthlyTrips(ts, tMonth, tYear), 0)

-----------------------------------------------------------------------------
(* DataService.getMonthlyBudgetStatus, the derivation from the profile read
   and the usage computed *)

NoStatus == [monthlyUsage |-> 0, monthlyLimit |-> 0, personalBudget |-> 0,
             isBusinessUser |-> FALSE, usagePercentage |-> Zero,
             remainingBudget |-> 0, isOverBudget |-> FALSE]

(* Variant: every role but citizen takes the driver path *)
isBusinessUserUnlessCitizen(userData) == userData.type /= Some("citizen")

isBusinessUserOf(userData) == userData.type = Some("driver")

budgetLimit(isBusinessUser, monthlyLimit, personalBudget) ==
    IF isBusinessUser THEN monthlyLimit ELSE personalBudget

(* Variant: a zero limit counts as fully used *)
usagePercentageFull(monthlyUsage, limit) ==
    IF limit > 0 THEN Ratio(monthlyUsage * 100, limit) ELSE Ratio(100, 1)

usagePercentage(monthlyUsage, limit) ==
    IF limit > 0 THEN Ratio(monthlyUsage * 100, limit) ELSE Zero

remainingBudget(monthlyUsage, limit) == limit - monthlyUsage

(* Variant: reaching the limit already counts as over budget *)
isOverBudgetInclusive(monthlyUsage, limit) == monthlyUsage >= limit

isOverBudget(monthlyUsage, limit) == monthlyUsage > limit

budgetStatus(userData, monthlyUsage) ==
    LET business == isBusinessUserOf(userData)
        monthlyLimit == OrDefault(userData.monthlyFuelLimit, 0)
        personalBudget == OrDefault(userData.personalBudget, 0)
        limit == budgetLimit(business, monthlyLimit, personalBudget)
    IN  [monthlyUsage |-> monthlyUsage,
         monthlyLimit |-> monthlyLimit,
         personalBudget |-> personalBudget,
         isBusinessUser |-> business,
         usagePercentage |-> usagePercentage(monthlyUsage, limit),
         remainingBudget |-> remainingBudget(monthlyUsage, limit),
         isOverBudget |-> isOverBudget(monthlyUsage, limit)]

(* DataService.getBudgetAlerts: Math.abs, toFixed(0) and the threshold chain *)

(* Variant: the sign is kept *)
AbsSigned(x) == x

Abs(x) == IF x < 0 THEN 0 - x ELSE x

toFixed0(r) == (2 * r.num + r.den) \div (2 * r.den)

(* Variant: three independent ifs instead of the else-if chain *)
budgetAlertsIndependent(status) ==
    (IF status.isOverBudget
       THEN << [kind |-> "exceeded", amount |-> Abs(status.remainingBudget)] >>
       ELSE <<>>)
    \o (IF AtLeast(status.usagePercentage, 90)
          THEN << [kind |-> "nearly exceeded",
                   amount |-> toFixed0(status.usagePercentage)] >>
          ELSE <<>>)
    \o (IF AtLeast(status.usagePercentage, 75)
          THEN << [kind |-> "monitor spending",
                   amount |-> toFixed0(status.usagePercentage)] >>
          ELSE <<>>)

(* Variant: the thresholds are written as the fractions 0.9 and 0.75 *)
budgetAlertsFractions(status) ==
    IF status.isOverBudget
      THEN << [kind |-> "exceeded", amount |-> Abs(status.remainingBudget)] >>
    ELSE IF 10 * status.usagePercentage.num >= 9 * status.usagePercentage.den
      THEN << [kind |-> "nearly exceeded", amount |-> toFixed0(status.usagePercentage)] >>
    ELSE IF 4 * status.usagePercentage.num >= 3 * status.usagePercentage.den
      THEN << [kind |-> "monitor spending", amount |-> toFixed0(status.usagePercentage)] >>
    ELSE <<>>

budgetAlerts(status) ==
    IF status.isOverBudget
      THEN << [kind |-> "exceeded", amount |-> Abs(status.remainingBudget)] >>
    ELSE IF AtLeast(status.usagePercentage, 90)
      THEN << [kind |-> "nearly exceeded", amount |-> toFixed0(status.usagePercentage)] >>
    ELSE IF AtLeast(status.usagePercentage, 75)
      THEN << [kind |-> "monitor spending", amount |-> toFixed0(status.usagePercentage)] >>
    ELSE <<>>

-----------------------------------------------------------------------------
(* The call in flight and the last completed call.

   call: the DataService call that is suspended at an await, with its
   arguments and locals (currentDate, tMonth and tYear are the locals
   currentDate, targetMonth and targetYear of calculateMonthlyUsage).
   pc is "idle" (no call), "user" (awaiting getDoc of the profile) or
   "trips" (awaiting getDocs of the trips).
   ret: the outcome of the call that completed last; nRead is the number of
   trip documents the store held when the call read them, reads the number
   of store reads the call issued. *)

Idle == [pc |-> "idle", op |-> "none", userId |-> "", month |-> None, year |-> None,
         currentDate |-> 0, tMonth |-> 0, tYear |-> 0, userData |-> NoDoc,
         reads |-> 0]

NoRet == [op |-> "none", userId |-> "", month |-> None, year |-> None,
          currentDate |-> 0, tMonth |-> 0, tYear |-> 0, userData |-> NoDoc,
          reads |-> 0,
          nRead |-> 0, outcome |-> "none", error |-> "none", value |-> 0,
          status |-> NoStatus, alerts |-> <<>>]

Returned(c, nRead, value, status, alerts) ==
    [op |-> c.op, userId |-> c.userId, month |-> c.month, year |-> c.year,
     currentDate |-> c.currentDate, tMonth |-> c.tMonth, tYear |-> c.tYear,
     userData |-> c.userData,
     reads |-> c.reads, nRead |-> nRead, outcome |-> "value", error |-> "none",
     value |-> value, status |-> status, alerts |-> alerts]

Raised(c, error) ==
    [op |-> c.op, userId |-> c.userId, month |-> c.month, year |-> c.year,
     currentDate |-> c.currentDate, tMonth |-> c.tMonth, tYear |-> c.tYear,
     userData |-> c.userData,
     reads |-> c.reads, nRead |-> 0, outcome |-> "error", error |-> error,
     value |-> 0, status |-> NoStatus, alerts |-> <<>>]

-----------------------------------------------------------------------------
(* The vehicles collection and the state of the UserProvider.
   vehicleDocs maps a document id to its document: status is "none" for an id
   addDoc has not handed out yet, "live" for a stored document, "deleted"
   after deleteDoc.  ctx holds the useState cells of the provider.  pending
   is the set of context and DataService calls that await the store.  auth
   is the user Firebase Auth has signed in, obdConnected the connection of
   the OBD service.  logoutCall is the position of logout(), log the events
   of the logout in the order they happened. *)

MaxVehicles == 2

MaxPending == 2

MaxCallbacks == 2

MaxMonthlyUsage == 40

VehicleIds == 1..MaxVehicles

NoVehicle == [status |-> "none", userId |-> "", isActive |-> FALSE]

(* A Vehicle as the context holds it: the document and its id *)
Vehicle(id, userId, isActive) == [id |-> id, userId |-> userId, isActive |-> isActive]

InitialContext ==
    [user |-> None, personalBudget |-> None, monthlyFuelLimit |-> None,
     vehicles |-> <<>>, activeVehicle |-> None, monthlyUsage |-> 0,
     isLoggingOut |-> FALSE, logoutCallbacks |-> <<>>, isTrackingTrip |-> FALSE]

(* setUser(profile): user holds the id, personalBudget and monthlyFuelLimit
   the budget fields of the user object *)
setUser(c, userId, profile) ==
    [c EXCEPT !.user = Some(userId), !.personalBudget = profile.personalBudget,
              !.monthlyFuelLimit = profile.monthlyFuelLimit]

(* setUser(null) *)
setUserNull(c) ==
    [c EXCEPT !.user = None, !.personalBudget = None, !.monthlyFuelLimit = None]

NotLoggingOut == [pc |-> "idle", next |-> 0, callbacks |-> <<>>]

(* The application before anybody has signed in *)
InitApp ==
    /\ vehicleDocs = [id \in VehicleIds |-> NoVehicle]
    /\ ctx = InitialContext
    /\ pending = {}
    /\ auth = None
    /\ obdConnected = FALSE
    /\ logoutCall = NotLoggingOut
    /\ log = <<>>

-----------------------------------------------------------------------------
(* Store reads *)

(* getDoc(doc(db, 'users', userId)) *)
getDocFrom(us, userId) == IF userId \in DOMAIN us THEN us[userId] ELSE NoDoc

getDoc(userId) == getDocFrom(users, userId)

-----------------------------------------------------------------------------
(* DataService.calculateMonthlyUsage(userId, month, year): up to its await *)

CalculateMonthlyUsage(userId, month, year) ==
    /\ call.pc = "idle"
    /\ LET c == [Idle EXCEPT !.op = "usage", !.userId = userId,
                             !.month = month, !.year = year]
       IN  IF userId = ""
             THEN /\ ret' = Returned(c, 0, 0, NoStatus, <<>>)
                  /\ call' = call
             ELSE /\ call' = [c EXCEPT !.pc = "trips",
                                       !.currentDate = now,
                                       !.tMonth = targetMonth(month, now),
                                       !.tYear = targetYear(year, now)]
                  /\ ret' = ret
    /\ UNCHANGED <<users, trips, now>>
    /\ UNCHANGED appVars

(* calculateMonthlyUsage resumes with the trips read *)
CalculateMonthlyUsageReturns ==
    /\ call.pc = "trips"
    /\ call.op = "usage"
    /\ LET c == [call EXCEPT !.reads = @ + 1]
           usage == totalCost(getTrips(trips, call.userId), call.tMonth, call.tYear)
       IN  ret' = Returned(c, Len(trips), usage, NoStatus, <<>>)
    /\ call' = Idle
    /\ UNCHANGED <<users, trips, now>>
    /\ UNCHANGED appVars

(* getDocs of the trips query rejects: nothing catches it on the way up *)
GetTripsRejects ==
    /\ call.pc = "trips"
    /\ ret' = Raised([call EXCEPT !.reads = @ + 1], "store")
    /\ call' = Idle
    /\ UNCHANGED <<users, trips, now>>
    /\ UNCHANGED appVars

-----------------------------------------------------------------------------
(* DataService.getMonthlyBudgetStatus(userId) and getBudgetAlerts(userId),
   which awaits it first: up to the await of the profile read *)

(* Variant: an empty identifier fails softly, as in calculateMonthlyUsage *)
StartBudgetStatusSoft(op, userId) ==
    /\ call.pc = "idle"
    /\ LET c == [Idle EXCEPT !.op = op, !.userId = userId]
       IN  IF userId = ""
             THEN /\ ret' = Returned(c, 0, 0, NoStatus, <<>>)
                  /\ call' = call
             ELSE /\ call' = [c EXCEPT !.pc = "user"]
                  /\ ret' = ret
    /\ UNCHANGED <<users, trips, now>>
    /\ UNCHANGED appVars

StartBudgetStatus(op, userId) ==
    /\ call.pc = "idle"
    /\ LET c == [Idle EXCEPT !.op = op, !.userId = userId]
       IN  IF userId = ""
             THEN /\ ret' = Raised(c, "undefined userId")
                  /\ call' = call
             ELSE /\ call' = [c EXCEPT !.pc = "user"]
                  /\ ret' = ret
    /\ UNCHANGED <<users, trips, now>>
    /\ UNCHANGED appVars

GetMonthlyBudgetStatus(userId) == StartBudgetStatus("status", userId)

GetBudgetAlerts(userId) == StartBudgetStatus("alerts", userId)

(* Variant: a missing profile is read as an empty one *)
GetUserResolvesEmptyProfile ==
    /\ call.pc = "user"
    /\ LET userSnap == getDoc(call.userId)
       IN  call' = [call EXCEPT !.reads = @ + 1,
                                !.pc = "trips",
                                !.userData = [userSnap EXCEPT !.exists = TRUE],
                                !.currentDate = now,
                                !.tMonth = targetMonth(None, now),
                                !.tYear = targetYear(None, now)]
    /\ ret' = ret
    /\ UNCHANGED <<users, trips, now>>
    /\ UNCHANGED appVars

(* getDoc resolves: 'User not found', or the profile is kept and
   calculateMonthlyUsage(userId) runs up to its await *)
GetUserResolves ==
    /\ call.pc = "user"
    /\ LET c == [call EXCEPT !.reads = @ + 1]
           userSnap == getDoc(call.userId)
       IN  IF ~userSnap.exists
             THEN /\ ret' = Raised(c, "User not found")
                  /\ call' = Idle
             ELSE /\ call' = [c EXCEPT !.pc = "trips",
                                       !.userData = userSnap,
                                       !.currentDate = now,
                                       !.tMonth = targetMonth(None, now),
                                       !.tYear = targetYear(None, now)]
                  /\ ret' = ret
    /\ UNCHANGED <<users, trips, now>>
    /\ UNCHANGED appVars

GetUserRejects ==
    /\ call.pc = "user"
    /\ ret' = Raised([call EXCEPT !.reads = @ + 1], "store")
    /\ call' = Idle
    /\ UNCHANGED <<users, trips, now>>
    /\ UNCHANGED appVars

(* Variant: the defaulted limit is written back to the profile *)
GetMonthlyBudgetStatusReturnsWriting ==
    /\ call.pc = "trips"
    /\ call.op = "status"
    /\ LET c == [call EXCEPT !.reads = @ + 1]
           usage == totalCost(getTrips(trips, call.userId), call.tMonth, call.tYear)
       IN  ret' = Returned(c, Len(trips), usage, budgetStatus(call.userData, usage), <<>>)
    /\ call' = Idle
    /\ users' = [users EXCEPT ![call.userId].monthlyFuelLimit =
                     Some(OrDefault(call.userData.monthlyFuelLimit, 0))]
    /\ UNCHANGED <<trips, now>>
    /\ UNCHANGED appVars

(* getMonthlyBudgetStatus resumes with the usage computed *)
GetMonthlyBudgetStatusReturns ==
    /\ call.pc = "trips"
    /\ call.op = "status"
    /\ LET c == [call EXCEPT !.reads = @ + 1]
           usage == totalCost(getTrips(trips, call.userId), call.tMonth, call.tYear)
       IN  ret' = Returned(c, Len(trips), usage, budgetStatus(call.userData, usage), <<>>)
    /\ call' = Idle
    /\ UNCHANGED <<users, trips, now>>
    /\ UNCHANGED appVars

(* getBudgetAlerts resumes with the status *)
GetBudgetAlertsReturns ==
    /\ call.pc = "trips"
    /\ call.op = "alerts"
    /\ LET c == [call EXCEPT !.reads = @ + 1]
           usage == totalCost(getTrips(trips, call.userId), call.tMonth, call.tYear)
           status == budgetStatus(call.userData, usage)
       IN  ret' = Returned(c, Len(trips), usage, status, budgetAlerts(status))
    /\ call' = Idle
    /\ UNCHANGED <<users, trips, now>>
    /\ UNCHANGED appVars

-----------------------------------------------------------------------------
(* Store writes and the clock *)

(* DataService.addTrip *)
AddTrip(trip) ==
    /\ Len(trips) < MaxTrips
    /\ trips' = Append(trips, trip)
    /\ UNCHANGED <<users, now, call, ret>>
    /\ UNCHANGED appVars

(* DataService.updateUserBudget: updateDoc of an existing profile *)
UpdateUserBudget(userId, budget) ==
    /\ userId /= ""
    /\ getDoc(userId).exists
    /\ users' = [users EXCEPT ![userId].personalBudget = Some(budget)]
    /\ UNCHANGED <<trips, now, call, ret>>
    /\ UNCHANGED appVars

(* DataService.updateUserMonthlyLimit *)
UpdateUserMonthlyLimit(userId, limit) ==
    /\ userId /= ""
    /\ getDoc(userId).exists
    /\ users' = [users EXCEPT ![userId].monthlyFuelLimit = Some(limit)]
    /\ UNCHANGED <<trips, now, call, ret>>
    /\ UNCHANGED appVars

(* new Date() advances *)
ClockEnd == FirstInstant(BaseYear, 1)

Tick ==
    /\ now < ClockEnd
    /\ now' = now + 1
    /\ UNCHANGED <<users, trips, call, ret>>
    /\ UNCHANGED appVars

-----------------------------------------------------------------------------
(* Calls that await the store.  kind names the call; vehicle is the vehicle
   an addVehicle has stored, vehicleId the argument of deleteVehicle and
   setActiveVehicle; first, active and vehicles are the values of
   vehicles.length === 0, activeVehicle and vehicles the callback closed
   over; docs are the documents of the snapshot setActiveVehicle still has to
   deactivate, failed says that one of these updates was rejected. *)

NoOp == [kind |-> "none", userId |-> "", vehicle |-> Vehicle(0, "", FALSE),
         vehicleId |-> 0, first |-> FALSE, active |-> None, vehicles |-> <<>>,
         docs |-> {}, failed |-> FALSE, budget |-> 0]

(* So many calls of the user interface may await the store at once *)
MayCall == Cardinality({op \in pending : op.kind /= "authStateChanged"}) < MaxPending

RECURSIVE vehiclesFrom(_, _, _)
vehiclesFrom(docs, userId, id) ==
    IF id > MaxVehicles THEN <<>>
    ELSE (IF docs[id].status = "live" /\ docs[id].userId = userId
            THEN << Vehicle(id, userId, docs[id].isActive) >>
            ELSE <<>>)
         \o vehiclesFrom(docs, userId, id + 1)

(* DataService.getVehicles: the documents stored under userId *)
getVehicles(docs, userId) ==
    IF userId = "" THEN <<>> ELSE vehiclesFrom(docs, userId, 1)

(* Array.prototype.find(v => v.isActive) *)
findActive(vs) ==
    LET act == SelectSeq(vs, LAMBDA v : v.isActive)
    IN  IF act = <<>> THEN None ELSE Some(act[1])

-----------------------------------------------------------------------------
(* Sign-in and the onAuthStateChanged listener of the UserProvider *)

(* Login.handleLogin: signInWithEmailAndPassword succeeds; the listener is
   called with the user and awaits getDoc of the profile *)
SignIn(userId) ==
    /\ ctx.user = None
    /\ logoutCall.pc = "idle"
    /\ auth' = Some(userId)
    /\ pending' = pending \cup {[NoOp EXCEPT !.kind = "authStateChanged",
                                             !.userId = userId]}
    /\ UNCHANGED <<vehicleDocs, ctx, obdConnected, logoutCall, log>>
    /\ UNCHANGED serviceVars

(* The listener after getDoc: a missing profile is created as a citizen
   with personalBudget 0, then setUser(profile) *)
AuthStateChanged(op) ==
    /\ op.kind = "authStateChanged"
    /\ op.userId /= ""
    /\ logoutCall.pc \in {"idle", "await"}
    /\ users' = IF getDoc(op.userId).exists THEN users
                ELSE [users EXCEPT ![op.userId] = UserDoc(Some("citizen"), Some(0), None)]
    /\ ctx' = setUser(ctx, op.userId, getDocFrom(users', op.userId))
    /\ pending' = pending \ {op}
    /\ UNCHANGED <<trips, now, call, ret>>
    /\ UNCHANGED <<vehicleDocs, auth, obdConnected, logoutCall, log>>

(* The listener called with null after the sign-out: setUser(null) *)
AuthStateChangedNull(op) ==
    /\ op.kind = "authStateChanged"
    /\ op.userId = ""
    /\ logoutCall.pc \in {"idle", "await", "resolved"}
    /\ ctx' = setUserNull(ctx)
    /\ pending' = pending \ {op}
    /\ UNCHANGED <<vehicleDocs, auth, obdConnected, logoutCall, log>>
    /\ UNCHANGED serviceVars

-----------------------------------------------------------------------------
(* Vehicles: the context's loadVehicles, addVehicle and deleteVehicle, and
   DataService.updateVehicle and setActiveVehicle *)

(* The handlers of the user interface run between the synchronous blocks of
   logout, for a signed-in user *)
CanCall == ctx.user /= None /\ logoutCall.pc \in {"idle", "await"} /\ MayCall

(* loadVehicles up to await dataService.getVehicles(user.id) *)
LoadVehicles ==
    /\ CanCall
    /\ pending' = pending \cup {[NoOp EXCEPT !.kind = "loadVehicles",
                                             !.userId = ctx.user[1],
                                             !.active = ctx.activeVehicle]}
    /\ UNCHANGED <<vehicleDocs, ctx, auth, obdConnected, logoutCall, log>>
    /\ UNCHANGED serviceVars

(* getVehicles resolves with the documents of the user: setVehicles, and
   setActiveVehicle if none was selected when the call began *)
LoadVehiclesResolves(op) ==
    /\ op.kind = "loadVehicles"
    /\ logoutCall.pc \in {"idle", "await"}
    /\ LET userVehicles == getVehicles(vehicleDocs, op.userId)
           activeVeh == findActive(userVehicles)
       IN  ctx' = [ctx EXCEPT !.vehicles = userVehicles,
                              !.activeVehicle =
                                  IF activeVeh /= None /\ op.active = None
                                    THEN activeVeh ELSE @]
    /\ pending' = pending \ {op}
    /\ UNCHANGED <<vehicleDocs, auth, obdConnected, logoutCall, log>>
    /\ UNCHANGED serviceVars

(* addVehicle up to the await: addDoc stores the vehicle under a new id,
   active iff the context held no vehicle when the callback was made *)
AddVehicle ==
    /\ CanCall
    /\ \E id \in VehicleIds :
          /\ vehicleDocs[id].status = "none"
          /\ \A other \in 1..(id - 1) : vehicleDocs[other].status /= "none"
          /\ LET first == Len(ctx.vehicles) = 0
                 newVehicle == Vehicle(id, ctx.user[1], first)
             IN  /\ vehicleDocs' = [vehicleDocs EXCEPT ![id] =
                        [status |-> "live", userId |-> ctx.user[1], isActive |-> first]]
                 /\ pending' = pending \cup {[NoOp EXCEPT !.kind = "addVehicle",
                                                          !.userId = ctx.user[1],
                                                          !.vehicle = newVehicle,
                                                          !.first = first]}
    /\ UNCHANGED <<ctx, auth, obdConnected, logoutCall, log>>
    /\ UNCHANGED serviceVars

(* addVehicle after the await: setVehicles(prev => [...prev, newVehicle]) and
   setActiveVehicle(newVehicle) for the first vehicle *)
AddVehicleResolves(op) ==
    /\ op.kind = "addVehicle"
    /\ logoutCall.pc \in {"idle", "await"}
    /\ ctx' = [ctx EXCEPT !.vehicles = Append(@, op.vehicle),
                          !.activeVehicle = IF op.first THEN Some(op.vehicle) ELSE @]
    /\ pending' = pending \ {op}
    /\ UNCHANGED <<vehicleDocs, auth, obdConnected, logoutCall, log>>
    /\ UNCHANGED serviceVars

(* DataService.updateVehicle(vehicleId, {isActive}): updateDoc merges the
   field into a stored document (it rejects for a missing one) *)
UpdateVehicle(vehicleId, isActive) ==
    /\ CanCall
    /\ vehicleDocs[vehicleId].status = "live"
    /\ vehicleDocs' = [vehicleDocs EXCEPT ![vehicleId].isActive = isActive]
    /\ UNCHANGED <<ctx, pending, auth, obdConnected, logoutCall, log>>
    /\ UNCHANGED serviceVars

(* deleteVehicle up to the await: deleteDoc *)
DeleteVehicle(vehicleId) ==
    /\ CanCall
    /\ vehicleDocs[vehicleId].status = "live"
    /\ vehicleDocs' = [vehicleDocs EXCEPT ![vehicleId] =
                          [NoVehicle EXCEPT !.status = "deleted"]]
    /\ pending' = pending \cup {[NoOp EXCEPT !.kind = "deleteVehicle",
                                             !.vehicleId = vehicleId,
                                             !.active = ctx.activeVehicle,
                                             !.vehicles = ctx.vehicles]}
    /\ UNCHANGED <<ctx, auth, obdConnected, logoutCall, log>>
    /\ UNCHANGED serviceVars

(* deleteVehicle after the await: the vehicle leaves the list; if it was the
   active one, the first of the remaining vehicles becomes active *)
DeleteVehicleResolves(op) ==
    /\ op.kind = "deleteVehicle"
    /\ logoutCall.pc \in {"idle", "await"}
    /\ LET remainingVehicles == SelectSeq(op.vehicles, LAMBDA v : v.id /= op.vehicleId)
       IN  ctx' = [ctx EXCEPT
                     !.vehicles = SelectSeq(@, LAMBDA v : v.id /= op.vehicleId),
                     !.activeVehicle =
                         IF op.active /= None /\ op.active[1].id = op.vehicleId
                           THEN (IF Len(remainingVehicles) > 0
                                   THEN Some(remainingVehicles[1]) ELSE None)
                           ELSE @]
    /\ pending' = pending \ {op}
    /\ UNCHANGED <<vehicleDocs, auth, obdConnected, logoutCall, log>>
    /\ UNCHANGED serviceVars

(* DataService.setActiveVehicle(userId, vehicleId) up to Promise.all: the
   snapshot of the user's vehicles is read, one updateDoc per document is
   under way *)
SetActiveVehicle(userId, vehicleId) ==
    /\ CanCall
    /\ pending' = pending \cup
          {[NoOp EXCEPT !.kind = "setActiveVehicle", !.userId = userId,
                        !.vehicleId = vehicleId,
                        !.docs = {id \in VehicleIds :
                                     /\ vehicleDocs[id].status = "live"
                                     /\ vehicleDocs[id].userId = userId}]}
    /\ UNCHANGED <<vehicleDocs, ctx, auth, obdConnected, logoutCall, log>>
    /\ UNCHANGED serviceVars

(* One updateDoc(doc.ref, {isActive: false}) of the snapshot is applied; for
   a document deleted meanwhile it rejects, and so will Promise.all *)
Deactivate(op, id) ==
    /\ op.kind = "setActiveVehicle"
    /\ id \in op.docs
    /\ LET live == vehicleDocs[id].status = "live"
       IN  /\ vehicleDocs' = IF live THEN [vehicleDocs EXCEPT ![id].isActive = FALSE]
                             ELSE vehicleDocs
           /\ pending' = (pending \ {op})
                         \cup {[op EXCEPT !.docs = @ \ {id},
                                          !.failed = @ \/ ~live]}
    /\ UNCHANGED <<ctx, auth, obdConnected, logoutCall, log>>
    /\ UNCHANGED serviceVars

(* After Promise.all: updateDoc(vehicleRef, {isActive: true}), unless one of
   the deactivations was rejected *)
Activate(op) ==
    /\ op.kind = "setActiveVehicle"
    /\ op.docs = {}
    /\ vehicleDocs' = IF ~op.failed /\ vehicleDocs[op.vehicleId].status = "live"
                        THEN [vehicleDocs EXCEPT ![op.vehicleId].isActive = TRUE]
                        ELSE vehicleDocs
    /\ pending' = pending \ {op}
    /\ UNCHANGED <<ctx, auth, obdConnected, logoutCall, log>>
    /\ UNCHANGED serviceVars

-----------------------------------------------------------------------------
(* The rest of the context: onLogout, setIsTrackingTrip, updateMonthlyUsage,
   and the OBD service the dashboard connects *)

(* onLogout(callback); a callback either returns or throws when called *)
OnLogout(callback) ==
    /\ CanCall
    /\ Len(ctx.logoutCallbacks) < MaxCallbacks
    /\ ctx' = [ctx EXCEPT !.logoutCallbacks = Append(@, callback)]
    /\ UNCHANGED <<vehicleDocs, pending, auth, obdConnected, logoutCall, log>>
    /\ UNCHANGED serviceVars

SetIsTrackingTrip(tracking) ==
    /\ CanCall
    /\ ctx' = [ctx EXCEPT !.isTrackingTrip = tracking]
    /\ UNCHANGED <<vehicleDocs, pending, auth, obdConnected, logoutCall, log>>
    /\ UNCHANGED serviceVars

(* updateMonthlyUsage(amount): setMonthlyUsage(prev => prev + amount) *)
UpdateMonthlyUsage(amount) ==
    /\ CanCall
    /\ ctx.monthlyUsage + amount <= MaxMonthlyUsage
    /\ ctx' = [ctx EXCEPT !.monthlyUsage = @ + amount]
    /\ UNCHANGED <<vehicleDocs, pending, auth, obdConnected, logoutCall, log>>
    /\ UNCHANGED serviceVars

(* The dashboard's connectOBD: obdService.connect() resolves connected *)
ObdConnect ==
    /\ CanCall
    /\ ctx.activeVehicle /= None
    /\ obdConnected' = TRUE
    /\ UNCHANGED <<vehicleDocs, ctx, pending, auth, logoutCall, log>>
    /\ UNCHANGED serviceVars

(* obdService.disconnect(): the stubbed connector drops the connection and
   returns *)
disconnect(connected) == FALSE

-----------------------------------------------------------------------------
(* UserProvider.logout.  Its synchronous blocks run to completion: from the
   call to the await of firebaseSignOut, and from the settled promise to the
   end of finally.  log lists what the logout has done so far. *)

(* What the logout clears *)
Cleared(c) ==
    [setUserNull(c) EXCEPT !.vehicles = <<>>, !.activeVehicle = None,
                           !.monthlyUsage = 0, !.logoutCallbacks = <<>>,
                           !.isTrackingTrip = FALSE]

(* Variant: the state is cleared as soon as logout is called *)
LogoutClearingFirst ==
    /\ ctx.user /= None
    /\ ~ctx.isLoggingOut
    /\ logoutCall.pc = "idle"
    /\ ctx' = [Cleared(ctx) EXCEPT !.isLoggingOut = TRUE]
    /\ logoutCall' = [pc |-> "callbacks", next |-> 1, callbacks |-> ctx.logoutCallbacks]
    /\ log' = <<>>
    /\ UNCHANGED <<vehicleDocs, pending, auth, obdConnected>>
    /\ UNCHANGED serviceVars

(* logout(): setIsLoggingOut(true); the Sign Out button is disabled while
   isLoggingOut *)
Logout ==
    /\ ctx.user /= None
    /\ ~ctx.isLoggingOut
    /\ logoutCall.pc = "idle"
    /\ ctx' = [ctx EXCEPT !.isLoggingOut = TRUE]
    /\ logoutCall' = [pc |-> "callbacks", next |-> 1, callbacks |-> ctx.logoutCallbacks]
    /\ log' = <<>>
    /\ UNCHANGED <<vehicleDocs, pending, auth, obdConnected>>
    /\ UNCHANGED serviceVars

(* logoutCallbacks.forEach: the next callback is called; what it throws is
   caught and logged *)
LogoutCallback ==
    /\ logoutCall.pc = "callbacks"
    /\ logoutCall.next <= Len(logoutCall.callbacks)
    /\ logoutCall' = [logoutCall EXCEPT !.next = @ + 1]
    /\ log' = Append(log, "callback")
    /\ UNCHANGED <<vehicleDocs, ctx, pending, auth, obdConnected>>
    /\ UNCHANGED serviceVars

(* obdService.disconnect() after the last callback *)
LogoutDisconnect ==
    /\ logoutCall.pc = "callbacks"
    /\ logoutCall.next > Len(logoutCall.callbacks)
    /\ obdConnected' = disconnect(obdConnected)
    /\ logoutCall' = [logoutCall EXCEPT !.pc = "signOut"]
    /\ log' = Append(log, "disconnect")
    /\ UNCHANGED <<vehicleDocs, ctx, pending, auth>>
    /\ UNCHANGED serviceVars

(* await firebaseSignOut(auth): the sign-out is requested *)
LogoutSignOut ==
    /\ logoutCall.pc = "signOut"
    /\ logoutCall' = [logoutCall EXCEPT !.pc = "await"]
    /\ log' = Append(log, "signOut")
    /\ UNCHANGED <<vehicleDocs, ctx, pending, auth, obdConnected>>
    /\ UNCHANGED serviceVars

(* firebaseSignOut resolves: nobody is signed in, the listener is called
   with null *)
SignOutResolves ==
    /\ logoutCall.pc = "await"
    /\ auth' = None
    /\ pending' = pending \cup {[NoOp EXCEPT !.kind = "authStateChanged"]}
    /\ logoutCall' = [logoutCall EXCEPT !.pc = "resolved"]
    /\ UNCHANGED <<vehicleDocs, ctx, obdConnected, log>>
    /\ UNCHANGED serviceVars

(* firebaseSignOut rejects *)
SignOutRejects ==
    /\ logoutCall.pc = "await"
    /\ logoutCall' = [logoutCall EXCEPT !.pc = "rejected"]
    /\ UNCHANGED <<vehicleDocs, ctx, pending, auth, obdConnected, log>>
    /\ UNCHANGED serviceVars

(* After the await: the six setters *)
LogoutClears ==
    /\ logoutCall.pc = "resolved"
    /\ ctx' = Cleared(ctx)
    /\ logoutCall' = [logoutCall EXCEPT !.pc = "finally"]
    /\ log' = Append(log, "clear")
    /\ UNCHANGED <<vehicleDocs, pending, auth, obdConnected>>
    /\ UNCHANGED serviceVars

(* Variant: the catch block only logs the error *)
LogoutCatchLogsOnly ==
    /\ logoutCall.pc = "rejected"
    /\ logoutCall' = [logoutCall EXCEPT !.pc = "finally"]
    /\ UNCHANGED <<vehicleDocs, ctx, pending, auth, obdConnected, log>>
    /\ UNCHANGED serviceVars

(* The catch block: obdService.disconnect() again and the six setters *)
LogoutCatch ==
    /\ logoutCall.pc = "rejected"
    /\ obdConnected' = disconnect(obdConnected)
    /\ ctx' = Cleared(ctx)
    /\ logoutCall' = [logoutCall EXCEPT !.pc = "finally"]
    /\ log' = log \o <<"disconnect", "clear">>
    /\ UNCHANGED <<vehicleDocs, pending, auth>>
    /\ UNCHANGED serviceVars

(* finally: setIsLoggingOut(false); logout has finished *)
LogoutFinally ==
    /\ logoutCall.pc = "finally"
    /\ ctx' = [ctx EXCEPT !.isLoggingOut = FALSE]
    /\ logoutCall' = [logoutCall EXCEPT !.pc = "idle"]
    /\ log' = Append(log, "finally")
    /\ UNCHANGED <<vehicleDocs, pending, auth, obdConnected>>
    /\ UNCHANGED serviceVars

-----------------------------------------------------------------------------
(* Login.handleLogin with its own read of the profile *)

(* handleLogin up to await getDoc(userRef): signInWithEmailAndPassword has
   succeeded, the listener has been called with the user *)
HandleLogin(userId) ==
    /\ ctx.user = None
    /\ logoutCall.pc = "idle"
    /\ auth' = Some(userId)
    /\ pending' = pending \cup {[NoOp EXCEPT !.kind = "authStateChanged",
                                             !.userId = userId],
                                [NoOp EXCEPT !.kind = "handleLogin",
                                             !.userId = userId]}
    /\ UNCHANGED <<vehicleDocs, ctx, obdConnected, logoutCall, log>>
    /\ UNCHANGED serviceVars

(* Only citizens and drivers are allowed *)
isValidUserType(userData) ==
    userData.type = Some("citizen") \/ userData.type = Some("driver")

(* handleLogin after getDoc: setUser for a stored profile of a valid type,
   setError otherwise *)
HandleLoginResolves(op) ==
    /\ op.kind = "handleLogin"
    /\ logoutCall.pc \in {"idle", "await"}
    /\ LET userSnap == getDoc(op.userId)
       IN  ctx' = IF userSnap.exists /\ isValidUserType(userSnap)
                    THEN setUser(ctx, op.userId, userSnap)
                    ELSE ctx
    /\ pending' = pending \ {op}
    /\ UNCHANGED <<vehicleDocs, auth, obdConnected, logoutCall, log>>
    /\ UNCHANGED serviceVars

-----------------------------------------------------------------------------
(* The profile screen's 'Set as Active', a failed deleteDoc, and a delete
   made by another session of the user *)

(* handleVehiclePress, 'Set as Active': setActiveVehicle(vehicle) of the
   context, for a vehicle of the list shown *)
SetAsActive(vehicle) ==
    /\ ctx.user /= None
    /\ logoutCall.pc \in {"idle", "await"}
    /\ \E i \in 1..Len(ctx.vehicles) : ctx.vehicles[i] = vehicle
    /\ ctx' = [ctx EXCEPT !.activeVehicle = Some(vehicle)]
    /\ UNCHANGED <<vehicleDocs, pending, auth, obdConnected, logoutCall, log>>
    /\ UNCHANGED serviceVars

(* deleteVehicle when deleteDoc rejects: the catch block logs and rethrows *)
DeleteVehicleRejects(vehicleId) ==
    /\ CanCall
    /\ ret' = Raised([Idle EXCEPT !.op = "deleteVehicle"], "store")
    /\ UNCHANGED <<users, trips, now, call>>
    /\ UNCHANGED appVars

(* DataService.deleteVehicle called by another session of the same user *)
DeleteVehicleElsewhere(vehicleId) ==
    /\ vehicleDocs[vehicleId].status = "live"
    /\ vehicleDocs' = [vehicleDocs EXCEPT ![vehicleId] =
                          [NoVehicle EXCEPT !.status = "deleted"]]
    /\ UNCHANGED <<ctx, pending, auth, obdConnected, logoutCall, log>>
    /\ UNCHANGED serviceVars

-----------------------------------------------------------------------------
(* The percentages the screens compute from the context's values.  A
   JavaScript division by zero gives Infinity, -Infinity or NaN, kept here as
   quotients with denominator 0. *)

Infinity == [num |-> 1, den |-> 0]

NegativeInfinity == [num |-> 0 - 1, den |-> 0]

NaN == [num |-> 0, den |-> 0]

(* (a / b) * 100 *)
dividedTimes100(a, b) ==
    IF b = 0 THEN (IF a = 0 THEN NaN ELSE IF a > 0 THEN Infinity ELSE NegativeInfinity)
    ELSE IF b > 0 THEN Ratio(a * 100, b)
    ELSE Ratio(0 - a * 100, 0 - b)

(* The dashboard's usagePercentage *)
dashboardUsagePercentage(isBusinessUser, monthlyUsage, monthlyLimit, personalBudget) ==
    IF isBusinessUser THEN dividedTimes100(monthlyUsage, monthlyLimit)
    ELSE dividedTimes100(monthlyUsage, personalBudget)

(* The profile screen's getBudgetProgress *)
getBudgetProgress(isBusinessUser, monthlyUsage, monthlyLimit, personalBudget) ==
    IF isBusinessUser
      THEN (IF monthlyLimit > 0 THEN dividedTimes100(monthlyUsage, monthlyLimit) ELSE Zero)
      ELSE (IF personalBudget > 0 THEN dividedTimes100(monthlyUsage, personalBudget) ELSE Zero)

-----------------------------------------------------------------------------
(* The context's calculateMonthlyUsage, run by an effect of the provider *)

(* calculateMonthlyUsage up to await dataService.getMonthlyBudgetStatus *)
RecalculateMonthlyUsage ==
    /\ CanCall
    /\ pending' = pending \cup {[NoOp EXCEPT !.kind = "calculateMonthlyUsage",
                                             !.userId = ctx.user[1]]}
    /\ UNCHANGED <<vehicleDocs, ctx, auth, obdConnected, logoutCall, log>>
    /\ UNCHANGED serviceVars

(* getMonthlyBudgetStatus resolves: setMonthlyUsage(budgetStatus.monthlyUsage);
   its 'User not found' is caught and logged *)
RecalculateMonthlyUsageResolves(op) ==
    /\ op.kind = "calculateMonthlyUsage"
    /\ logoutCall.pc \in {"idle", "await"}
    /\ LET usage == totalCost(getTrips(trips, op.userId),
                              targetMonth(None, now), targetYear(None, now))
           budgetStatusRead == budgetStatus(getDoc(op.userId), usage)
       IN  ctx' = IF getDoc(op.userId).exists
                    THEN [ctx EXCEPT !.monthlyUsage = budgetStatusRead.monthlyUsage]
                    ELSE ctx
    /\ pending' = pending \ {op}
    /\ UNCHANGED <<vehicleDocs, auth, obdConnected, logoutCall, log>>
    /\ UNCHANGED serviceVars

-----------------------------------------------------------------------------
(* UserProvider.logout when obdService.disconnect() throws *)

(* obdService.disconnect() after the last callback throws: control passes
   to the catch block, the sign-out is not requested *)
LogoutDisconnectThrows ==
    /\ logoutCall.pc = "callbacks"
    /\ logoutCall.next > Len(logoutCall.callbacks)
    /\ logoutCall' = [logoutCall EXCEPT !.pc = "rejected"]
    /\ log' = Append(log, "disconnectThrows")
    /\ UNCHANGED <<vehicleDocs, ctx, pending, auth, obdConnected>>
    /\ UNCHANGED serviceVars

(* The catch block: obdService.disconnect() throws, the six setters after
   it are not reached and the error leaves the catch block *)
LogoutCatchThrows ==
    /\ logoutCall.pc = "rejected"
    /\ logoutCall' = [logoutCall EXCEPT !.pc = "raising"]
    /\ log' = Append(log, "disconnectThrows")
    /\ UNCHANGED <<vehicleDocs, ctx, pending, auth, obdConnected>>
    /\ UNCHANGED serviceVars

(* finally with an error under way: setIsLoggingOut(false), then the promise
   of logout rejects *)
LogoutFinallyRaises ==
    /\ logoutCall.pc = "raising"
    /\ ctx' = [ctx EXCEPT !.isLoggingOut = FALSE]
    /\ logoutCall' = [logoutCall EXCEPT !.pc = "idle"]
    /\ log' = log \o <<"finally", "raise">>
    /\ UNCHANGED <<vehicleDocs, pending, auth, obdConnected>>
    /\ UNCHANGED serviceVars

-----------------------------------------------------------------------------
(* The context's updatePersonalBudget and updateMonthlyLimit *)

(* updatePersonalBudget up to await dataService.updateUserBudget(user.id,
   budget): updateDoc writes the field of the stored profile *)
UpdatePersonalBudget(budget) ==
    /\ CanCall
    /\ getDoc(ctx.user[1]).exists
    /\ users' = [users EXCEPT ![ctx.user[1]].personalBudget = Some(budget)]
    /\ pending' = pending \cup {[NoOp EXCEPT !.kind = "updatePersonalBudget",
                                             !.userId = ctx.user[1],
                                             !.budget = budget]}
    /\ UNCHANGED <<trips, now, call, ret>>
    /\ UNCHANGED <<vehicleDocs, ctx, auth, obdConnected, logoutCall, log>>

(* After the await: setUser(prev => prev ? {...prev, personalBudget: budget}
   : null) *)
UpdatePersonalBudgetResolves(op) ==
    /\ op.kind = "updatePersonalBudget"
    /\ logoutCall.pc \in {"idle", "await"}
    /\ ctx' = IF ctx.user /= None
                THEN [ctx EXCEPT !.personalBudget = Some(op.budget)]
                ELSE setUserNull(ctx)
    /\ pending' = pending \ {op}
    /\ UNCHANGED <<vehicleDocs, auth, obdConnected, logoutCall, log>>
    /\ UNCHANGED serviceVars

(* updateDoc rejects: the catch block logs and rethrows *)
UpdatePersonalBudgetRejects(budget) ==
    /\ CanCall
    /\ ret' = Raised([Idle EXCEPT !.op = "updatePersonalBudget"], "store")
    /\ UNCHANGED <<users, trips, now, call>>
    /\ UNCHANGED appVars

(* if (!user?.id) throw new Error('User not authenticated') *)
UpdatePersonalBudgetNoUser(budget) ==
    /\ ctx.user = None
    /\ logoutCall.pc \in {"idle", "await"}
    /\ ret' = Raised([Idle EXCEPT !.op = "updatePersonalBudget"],
                     "User not authenticated")
    /\ UNCHANGED <<users, trips, now, call>>
    /\ UNCHANGED appVars

(* updateMonthlyLimit up to await dataService.updateUserMonthlyLimit(user.id,
   limit) *)
UpdateMonthlyLimit(limit) ==
    /\ CanCall
    /\ getDoc(ctx.user[1]).exists
    /\ users' = [users EXCEPT ![ctx.user[1]].monthlyFuelLimit = Some(limit)]
    /\ pending' = pending \cup {[NoOp EXCEPT !.kind = "updateMonthlyLimit",
                                             !.userId = ctx.user[1],
                                             !.budget = limit]}
    /\ UNCHANGED <<trips, now, call, ret>>
    /\ UNCHANGED <<vehicleDocs, ctx, auth, obdConnected, logoutCall, log>>

(* After the await: setUser(prev => prev ? {...prev, monthlyFuelLimit: limit}
   : null) *)
UpdateMonthlyLimitResolves(op) ==
    /\ op.kind = "updateMonthlyLimit"
    /\ logoutCall.pc \in {"idle", "await"}
    /\ ctx' = IF ctx.user /= None
                THEN [ctx EXCEPT !.monthlyFuelLimit = Some(op.budget)]
                ELSE setUserNull(ctx)
    /\ pending' = pending \ {op}
    /\ UNCHANGED <<vehicleDocs, auth, obdConnected, logoutCall, log>>
    /\ UNCHANGED serviceVars

UpdateMonthlyLimitRejects(limit) ==
    /\ CanCall
    /\ ret' = Raised([Idle EXCEPT !.op = "updateMonthlyLimit"], "store")
    /\ UNCHANGED <<users, trips, now, call>>
    /\ UNCHANGED appVars

UpdateMonthlyLimitNoUser(limit) ==
    /\ ctx.user = None
    /\ logoutCall.pc \in {"idle", "await"}
    /\ ret' = Raised([Idle EXCEPT !.op = "updateMonthlyLimit"],
                     "User not authenticated")
    /\ UNCHANGED <<users, trips, now, call>>
    /\ UNCHANGED appVars

-----------------------------------------------------------------------------
(* Specification of the usage computation: trips of two users over two
   years, calls with every combination of supplied and omitted month/year *)

UserIds == {"u1", "u2"}

TripInputs ==
    { Trip("u1", FirstInstant(BaseYear, 0), Some(LastInstant(BaseYear, 0)), Some(1)),
      Trip("u1", LastInstant(BaseYear, 0), Some(FirstInstant(BaseYear, 1)), Some(2)),
      Trip("u1", FirstInstant(BaseYear, 1), None, Some(4)),
      Trip("u1", FirstInstant(BaseYear + 1, 0), None, Some(8)),
      Trip("u2", FirstInstant(BaseYear, 0), Some(LastInstant(BaseYear, 0)), Some(16)),
      Trip("u1", LastInstant(BaseYear, 0), None, None) }

CallUserIds == {"", "u1"}

CallMonths == {None, Some(0), Some(1)}

CallYears == {None, Some(BaseYear), Some(BaseYear + 1)}

Init ==
    /\ users = [u \in UserIds |-> UserDoc(Some("citizen"), Some(0), None)]
    /\ trips = <<>>
    /\ now = LastInstant(BaseYear, 0)
    /\ call = Idle
    /\ ret = NoRet
    /\ InitApp

Next ==
    \/ \E trip \in TripInputs : AddTrip(trip)
    \/ Tick
    \/ \E userId \in CallUserIds, month \in CallMonths, year \in CallYears :
          CalculateMonthlyUsage(userId, month, year)
    \/ CalculateMonthlyUsageReturns
    \/ GetTripsRejects

Spec == Init /\ [][Next]_vars

-----------------------------------------------------------------------------
(* Specification of the budget status: one user with a profile of any role
   and any stored budget values, one identifier without a profile, trips of
   both, and the three read operations called with an empty, a known and an
   unknown identifier *)

ProfileTypes == {None, Some("citizen"), Some("driver"), Some("admin")}

BudgetInputs == {0, 100}

LimitInputs == {0, 200}

BudgetTripInputs ==
    { Trip("u1", LastInstant(BaseYear, 0), Some(FirstInstant(BaseYear, 1)), Some(40)),
      Trip("u1", FirstInstant(BaseYear, 0), None, Some(60)),
      Trip("u1", FirstInstant(BaseYear, 0), None, Some(250)),
      Trip("u1", FirstInstant(BaseYear, 1), None, Some(35)),
      Trip("u2", LastInstant(BaseYear, 0), None, Some(40)),
      Trip("", LastInstant(BaseYear, 0), None, Some(40)) }

StatusUserIds == {"", "u1", "u2"}

InitBudget ==
    /\ \E type \in ProfileTypes :
          users = [u \in UserIds |->
                      IF u = "u1" THEN UserDoc(type, None, None) ELSE NoDoc]
    /\ trips = <<>>
    /\ now = LastInstant(BaseYear, 0)
    /\ call = Idle
    /\ ret = NoRet
    /\ InitApp

(* The caller takes the outcome of the completed call *)
Deliver ==
    /\ ret /= NoRet
    /\ ret' = NoRet
    /\ UNCHANGED <<users, trips, now, call>>
    /\ UNCHANGED appVars

(* The outcome of a call is taken by its caller before the next step *)
Taken == ret = NoRet

NextBudget ==
    \/ Deliver
    \/ Taken /\ \E trip \in BudgetTripInputs : AddTrip(trip)
    \/ Taken /\ \E userId \in UserIds, budget \in BudgetInputs :
                   UpdateUserBudget(userId, budget)
    \/ Taken /\ \E userId \in UserIds, limit \in LimitInputs :
                   UpdateUserMonthlyLimit(userId, limit)
    \/ Taken /\ Tick
    \/ Taken /\ \E userId \in StatusUserIds : CalculateMonthlyUsage(userId, None, None)
    \/ Taken /\ \E userId \in StatusUserIds : GetMonthlyBudgetStatus(userId)
    \/ Taken /\ \E userId \in StatusUserIds : GetBudgetAlerts(userId)
    \/ Taken /\ GetUserResolves
    \/ Taken /\ GetUserRejects
    \/ Taken /\ CalculateMonthlyUsageReturns
    \/ Taken /\ GetMonthlyBudgetStatusReturns
    \/ Taken /\ GetBudgetAlertsReturns
    \/ Taken /\ GetTripsRejects

SpecBudget == InitBudget /\ [][NextBudget]_vars

-----------------------------------------------------------------------------
(* Specification of the budget alerts: one citizen or driver whose budget
   fields are updated to zero, positive and negative values, trips of the
   current and of the next month, and getBudgetAlerts called for the user *)

AlertProfileTypes == {Some("citizen"), Some("driver")}

AlertBudgetInputs == {0, 100, 0 - 50}

AlertLimitInputs == {200}

AlertTripInputs ==
    { Trip("u1", FirstInstant(BaseYear, 0), Some(LastInstant(BaseYear, 0)), Some(35)),
      Trip("u1", LastInstant(BaseYear, 0), Some(FirstInstant(BaseYear, 1)), Some(40)),
      Trip("u1", LastInstant(BaseYear, 0), None, Some(60)),
      Trip("u1", FirstInstant(BaseYear, 0), None, Some(250)),
      Trip("u1", FirstInstant(BaseYear, 1), None, Some(40)) }

InitAlerts ==
    /\ \E type \in AlertProfileTypes :
          users = [u \in UserIds |->
                      IF u = "u1" THEN UserDoc(type, None, None) ELSE NoDoc]
    /\ trips = <<>>
    /\ now = LastInstant(BaseYear, 0)
    /\ call = Idle
    /\ ret = NoRet
    /\ InitApp

NextAlerts ==
    \/ Deliver
    \/ Taken /\ \E trip \in AlertTripInputs : AddTrip(trip)
    \/ Taken /\ \E budget \in AlertBudgetInputs : UpdateUserBudget("u1", budget)
    \/ Taken /\ \E limit \in AlertLimitInputs : UpdateUserMonthlyLimit("u1", limit)
    \/ Taken /\ Tick
    \/ Taken /\ GetBudgetAlerts("u1")
    \/ Taken /\ GetUserResolves
    \/ Taken /\ GetBudgetAlertsReturns

SpecAlerts == InitAlerts /\ [][NextAlerts]_vars

-----------------------------------------------------------------------------
(* Specification of the vehicles: one user signs in and adds, loads,
   updates, activates and deletes vehicles, the calls overlapping *)

InitVehicles ==
    /\ users = [u \in UserIds |-> UserDoc(Some("citizen"), Some(0), None)]
    /\ trips = <<>>
    /\ now = LastInstant(BaseYear, 0)
    /\ call = Idle
    /\ ret = NoRet
    /\ InitApp

NextVehicles ==
    \/ SignIn("u1")
    \/ \E op \in pending : AuthStateChanged(op)
    \/ LoadVehicles
    \/ \E op \in pending : LoadVehiclesResolves(op)
    \/ AddVehicle
    \/ \E op \in pending : AddVehicleResolves(op)
    \/ \E vehicleId \in VehicleIds, isActive \in BOOLEAN : UpdateVehicle(vehicleId, isActive)
    \/ \E vehicleId \in VehicleIds : DeleteVehicle(vehicleId)
    \/ \E op \in pending : DeleteVehicleResolves(op)
    \/ \E vehicleId \in VehicleIds : SetActiveVehicle("u1", vehicleId)
    \/ \E op \in pending : \E id \in op.docs : Deactivate(op, id)
    \/ \E op \in pending : Activate(op)

SpecVehicles == InitVehicles /\ [][NextVehicles]_vars

-----------------------------------------------------------------------------
(* Specification of the logout: a user signs in, adds vehicles, registers
   logout callbacks, tracks a trip, connects the OBD service and logs out,
   the sign-out succeeding or failing *)

CallbackInputs == {"returns", "throws"}

UsageInputs == {MaxMonthlyUsage}

NextLogout ==
    \/ SignIn("u1")
    \/ \E op \in pending : AuthStateChanged(op)
    \/ \E op \in pending : AuthStateChangedNull(op)
    \/ AddVehicle
    \/ \E op \in pending : AddVehicleResolves(op)
    \/ \E callback \in CallbackInputs : OnLogout(callback)
    \/ \E tracking \in BOOLEAN : SetIsTrackingTrip(tracking)
    \/ \E amount \in UsageInputs : UpdateMonthlyUsage(amount)
    \/ ObdConnect
    \/ Logout
    \/ LogoutCallback
    \/ LogoutDisconnect
    \/ LogoutSignOut
    \/ SignOutResolves
    \/ SignOutRejects
    \/ LogoutClears
    \/ LogoutCatch
    \/ LogoutFinally

SpecLogout == InitVehicles /\ [][NextLogout]_vars

-----------------------------------------------------------------------------
(* Specification of the login: accounts with a citizen, driver or admin
   profile or without a profile sign in and log out *)

LoginProfiles == {NoDoc} \cup {UserDoc(type, Some(0), None) :
                                  type \in {Some("citizen"), Some("driver"), Some("admin")}}

InitLogin ==
    /\ users \in [UserIds -> LoginProfiles]
    /\ trips = <<>>
    /\ now = LastInstant(BaseYear, 0)
    /\ call = Idle
    /\ ret = NoRet
    /\ InitApp

NextLogin ==
    \/ \E userId \in UserIds : HandleLogin(userId)
    \/ \E op \in pending : HandleLoginResolves(op)
    \/ \E op \in pending : AuthStateChanged(op)
    \/ \E op \in pending : AuthStateChangedNull(op)
    \/ Logout
    \/ LogoutDisconnect
    \/ LogoutSignOut
    \/ SignOutResolves
    \/ SignOutRejects
    \/ LogoutClears
    \/ LogoutCatch
    \/ LogoutFinally

SpecLogin == InitLogin /\ [][NextLogin]_vars

-----------------------------------------------------------------------------
(* Specification of the vehicles as the screens use them: one user signs in,
   loads, adds and deletes vehicles and chooses the active one, the calls
   overlapping *)

NextGarage ==
    \/ SignIn("u1")
    \/ \E op \in pending : AuthStateChanged(op)
    \/ LoadVehicles
    \/ \E op \in pending : LoadVehiclesResolves(op)
    \/ AddVehicle
    \/ \E op \in pending : AddVehicleResolves(op)
    \/ \E i \in 1..Len(ctx.vehicles) : DeleteVehicle(ctx.vehicles[i].id)
    \/ \E op \in pending : DeleteVehicleResolves(op)
    \/ \E i \in 1..Len(ctx.vehicles) : DeleteVehicleRejects(ctx.vehicles[i].id)
    \/ \E i \in 1..Len(ctx.vehicles) : SetAsActive(ctx.vehicles[i])

SpecGarage == InitVehicles /\ [][NextGarage]_vars

(* The same, with another session of the user deleting vehicles *)
NextGarageShared ==
    \/ NextGarage
    \/ \E vehicleId \in VehicleIds : DeleteVehicleElsewhere(vehicleId)

SpecGarageShared == InitVehicles /\ [][NextGarageShared]_vars

-----------------------------------------------------------------------------
(* Specification of the session: a user signs in, vehicles are added and
   loaded, the monthly usage is recalculated from the trips, and the user
   logs out while such requests are under way *)

SessionTripInputs ==
    { Trip("u1", LastInstant(BaseYear, 0), None, Some(40)) }

NextSession ==
    \/ SignIn("u1")
    \/ \E op \in pending : AuthStateChanged(op)
    \/ \E op \in pending : AuthStateChangedNull(op)
    \/ \E trip \in SessionTripInputs : AddTrip(trip)
    \/ LoadVehicles
    \/ \E op \in pending : LoadVehiclesResolves(op)
    \/ AddVehicle
    \/ \E op \in pending : AddVehicleResolves(op)
    \/ RecalculateMonthlyUsage
    \/ \E op \in pending : RecalculateMonthlyUsageResolves(op)
    \/ Logout
    \/ LogoutDisconnect
    \/ LogoutSignOut
    \/ SignOutResolves
    \/ SignOutRejects
    \/ LogoutClears
    \/ LogoutCatch
    \/ LogoutFinally

SpecSession == InitVehicles /\ [][NextSession]_vars

-----------------------------------------------------------------------------
(* Specification of the logout with failures: callbacks throw, the OBD
   disconnect throws or returns, the sign-out succeeds or fails *)

NextLogoutFaulty ==
    \/ SignIn("u1")
    \/ \E op \in pending : AuthStateChanged(op)
    \/ \E op \in pending : AuthStateChangedNull(op)
    \/ AddVehicle
    \/ \E op \in pending : AddVehicleResolves(op)
    \/ \E callback \in CallbackInputs : OnLogout(callback)
    \/ ObdConnect
    \/ Logout
    \/ LogoutCallback
    \/ LogoutDisconnect
    \/ LogoutDisconnectThrows
    \/ LogoutSignOut
    \/ SignOutResolves
    \/ SignOutRejects
    \/ LogoutClears
    \/ LogoutCatch
    \/ LogoutCatchThrows
    \/ LogoutFinally
    \/ LogoutFinallyRaises

SpecLogoutFaulty == InitVehicles /\ [][NextLogoutFaulty]_vars

-----------------------------------------------------------------------------
(* Specification of the budget settings: users sign in, save a personal
   budget or a monthly limit, the store accepting or rejecting the update,
   and log out *)

ProfileLimitInputs == {200}

NextProfile ==
    \/ \E userId \in UserIds : SignIn(userId)
    \/ \E op \in pending : AuthStateChanged(op)
    \/ \E op \in pending : AuthStateChangedNull(op)
    \/ \E budget \in BudgetInputs : UpdatePersonalBudget(budget)
    \/ \E op \in pending : UpdatePersonalBudgetResolves(op)
    \/ \E budget \in BudgetInputs : UpdatePersonalBudgetRejects(budget)
    \/ \E budget \in BudgetInputs : UpdatePersonalBudgetNoUser(budget)
    \/ \E limit \in ProfileLimitInputs : UpdateMonthlyLimit(limit)
    \/ \E op \in pending : UpdateMonthlyLimitResolves(op)
    \/ \E limit \in ProfileLimitInputs : UpdateMonthlyLimitRejects(limit)
    \/ \E limit \in ProfileLimitInputs : UpdateMonthlyLimitNoUser(limit)
    \/ Logout
    \/ LogoutDisconnect
    \/ LogoutSignOut
    \/ SignOutResolves
    \/ LogoutClears
    \/ LogoutFinally

SpecProfile == InitVehicles /\ [][NextProfile]_vars

-----------------------------------------------------------------------------
(* Reference definitions for the properties *)

(* startTime lies in month m of year y *)
StartsIn(trip, m, y) ==
    /\ FirstInstant(y, m) <= trip.startTime
    /\ trip.startTime <= LastInstant(y, m)

CostOrZero(trip) == IF trip.cost = None THEN 0 ELSE trip.cost[1]

RECURSIVE SumCost(_, _)
SumCost(ts, I) ==
    IF I = {} THEN 0
    ELSE LET i == CHOOSE j \in I : TRUE
         IN  CostOrZero(ts[i]) + SumCost(ts, I \ {i})

(* The trips the store held when the last completed call read them *)
TripsRead == SubSeq(trips, 1, ret.nRead)

(* Indices of the trips of TripsRead stored under userId that start in (m, y) *)
TripsOfMonth(userId, m, y) ==
    {i \in 1..Len(TripsRead) :
        TripsRead[i].userId = userId /\ StartsIn(TripsRead[i], m, y)}

UsageReturned ==
    ret.op = "usage" /\ ret.outcome = "value" /\ ret.userId /= ""

(* The month and the year of an instant *)
MonthAt(t) == CHOOSE m \in 0..(MonthsPerYear - 1) :
                  \E y \in BaseYear..(BaseYear + 1) :
                      FirstInstant(y, m) <= t /\ t <= LastInstant(y, m)

YearAt(t) == CHOOSE y \in BaseYear..(BaseYear + 1) :
                 FirstInstant(y, 0) <= t /\ t <= LastInstant(y, MonthsPerYear - 1)

RemoveAt(ts, i) == SubSeq(ts, 1, i - 1) \o SubSeq(ts, i + 1, Len(ts))

-----------------------------------------------------------------------------
(* C1: calculateMonthlyUsage(userId, month, year), with month and year
   supplied, returns exactly the sum of the cost fields of the user's stored
   trips whose startTime lies in that month of that year, a missing cost
   counting as 0; it returns 0 when the user has no trips. *)
C1_UsageIsSumOfMonth ==
    (UsageReturned /\ ret.month /= None /\ ret.year /= None) =>
        /\ ret.value = SumCost(TripsRead,
                               TripsOfMonth(ret.userId, ret.month[1], ret.year[1]))
        /\ (\A i \in 1..Len(TripsRead) : TripsRead[i].userId /= ret.userId)
               => ret.value = 0

(* Two trips of the month are summed while a trip of the same user in another
   month is left out *)
C1_Witness ==
    /\ UsageReturned /\ ret.month /= None /\ ret.year /= None
    /\ Cardinality(TripsOfMonth(ret.userId, ret.month[1], ret.year[1])) = 2
    /\ \E i \in TripsOfMonth(ret.userId, ret.month[1], ret.year[1]) :
           TripsRead[i].cost = None
    /\ ret.value > 0

(* C2: a trip is attributed by its startTime only: a trip of the user that
   is still open, or that ends in a later month than it starts, adds its whole
   cost to the usage of the month it starts in and nothing to the usage of
   any other month, the month it ends in included. *)
C2_AttributedByStart ==
    UsageReturned =>
        \A i \in 1..Len(TripsRead) :
            LET trip == TripsRead[i]
                without == totalCost(getTrips(RemoveAt(TripsRead, i), ret.userId),
                                     ret.tMonth, ret.tYear)
            IN  (/\ trip.userId = ret.userId
                 /\ \/ trip.endTime = None
                    \/ MonthAt(trip.endTime[1]) /= MonthAt(trip.startTime)
                    \/ YearAt(trip.endTime[1]) /= YearAt(trip.startTime))
                => ret.value - without =
                      IF StartsIn(trip, ret.tMonth, ret.tYear)
                        THEN CostOrZero(trip) ELSE 0

(* The usage of the month a trip ends in was computed, the trip having
   started at the last instant of the month before, and the trip added
   nothing to it *)
C2_Witness ==
    /\ UsageReturned
    /\ \E i \in 1..Len(TripsRead) :
          LET trip == TripsRead[i]
          IN  /\ trip.userId = ret.userId
              /\ trip.endTime /= None
              /\ CostOrZero(trip) > 0
              /\ trip.startTime = LastInstant(YearAt(trip.startTime),
                                              MonthAt(trip.startTime))
              /\ StartsIn([trip EXCEPT !.startTime = trip.endTime[1]],
                          ret.tMonth, ret.tYear)
              /\ ~StartsIn(trip, ret.tMonth, ret.tYear)
    /\ ret.value = 0

(* C3: calculateMonthlyUsage uses the supplied month (0 selects January)
   and the supplied year, and the month or the year of the clock only for
   the argument that is omitted; trips of the same month number in another
   year are not counted. *)
C3_TargetIsSuppliedOrCurrent ==
    UsageReturned =>
        LET m == IF ret.month = None THEN MonthAt(ret.currentDate) ELSE ret.month[1]
            y == IF ret.year = None THEN YearAt(ret.currentDate) ELSE ret.year[1]
        IN  /\ ret.value = SumCost(TripsRead, TripsOfMonth(ret.userId, m, y))
            /\ ret.tMonth = m
            /\ ret.tYear = y

(* Month 0 was supplied while the clock stood in February, the year was
   omitted, and the January trip of the next year was left out *)
C3_Witness ==
    /\ UsageReturned
    /\ ret.month = Some(0) /\ ret.year = None
    /\ MonthAt(ret.currentDate) = 1
    /\ \E i \in 1..Len(TripsRead) :
          /\ TripsRead[i].userId = ret.userId
          /\ StartsIn(TripsRead[i], 0, YearAt(ret.currentDate) + 1)
    /\ TripsOfMonth(ret.userId, 0, YearAt(ret.currentDate)) /= {}
    /\ ret.value > 0

(* C4, as claimed: two consecutive calls of calculateMonthlyUsage with the
   same user, month and year arguments over an unchanged trip set return the
   same value. *)
C4_SameArgumentsSameResult ==
    [][(/\ ret.op = "usage" /\ ret.outcome = "value"
        /\ ret'.op = "usage" /\ ret'.outcome = "value"
        /\ call.pc = "trips"
        /\ ret'.userId = ret.userId
        /\ ret'.month = ret.month /\ ret'.year = ret.year
        /\ ret'.nRead = ret.nRead)
       => ret'.value = ret.value]_vars

(* C4, amended: ... and the same target month and year, which for an omitted
   argument means that the clock has not left the month or the year. *)
C4_SameTargetSameResult ==
    [][(/\ ret.op = "usage" /\ ret.outcome = "value"
        /\ ret'.op = "usage" /\ ret'.outcome = "value"
        /\ call.pc = "trips"
        /\ ret'.userId = ret.userId
        /\ ret'.month = ret.month /\ ret'.year = ret.year
        /\ ret'.tMonth = ret.tMonth /\ ret'.tYear = ret.tYear
        /\ ret'.nRead = ret.nRead)
       => ret'.value = ret.value]_vars

(* A second call with the arguments and the target of the completed one is
   about to read the unchanged trip set, at a later instant of the clock *)
C4_Witness ==
    /\ UsageReturned /\ ret.value > 0
    /\ call.pc = "trips" /\ call.op = "usage"
    /\ call.userId = ret.userId
    /\ call.month = ret.month /\ call.year = ret.year
    /\ call.tMonth = ret.tMonth /\ call.tYear = ret.tYear
    /\ call.currentDate > ret.currentDate
    /\ ret.nRead = Len(trips)

-----------------------------------------------------------------------------
(* Reference definitions for the budget status *)

StatusReturned ==
    ret.op \in {"status", "alerts"} /\ ret.outcome = "value"

NumberOrZero(x) == IF x = None THEN 0 ELSE x[1]

(* The limit the role of the profile makes applicable *)
ApplicableLimit(doc) ==
    IF doc.type = Some("driver") THEN NumberOrZero(doc.monthlyFuelLimit)
    ELSE NumberOrZero(doc.personalBudget)

(* The usage of the month the clock stood in when the call read it *)
CurrentMonthUsage ==
    SumCost(TripsRead, TripsOfMonth(ret.userId, MonthAt(ret.currentDate),
                                    YearAt(ret.currentDate)))

OptionalNumbers == {None} \cup {Some(x) : x \in BudgetInputs \cup LimitInputs}

-----------------------------------------------------------------------------
(* C5: calculateMonthlyUsage, getMonthlyBudgetStatus and getBudgetAlerts only
   read: no step of a call of theirs, returning or raising, changes a user or
   trip record of the store. *)
C5_ReadsOnly ==
    [][(call' /= call \/ (ret' /= ret /\ ret' /= NoRet))
          => (users' = users /\ trips' = trips)]_vars

(* A budget status was returned for a profile that lacks the limit field,
   over stored trips, and the profile still lacks it *)
C5_Witness ==
    /\ ret.op = "status" /\ ret.outcome = "value"
    /\ ret.userData.monthlyFuelLimit = None
    /\ getDoc(ret.userId).monthlyFuelLimit = None
    /\ ret.value > 0

(* C6: every status record returned has remainingBudget = limit - monthlyUsage
   and isOverBudget = (monthlyUsage > limit), hence isOverBudget exactly when
   remainingBudget is negative, limit being the limit applicable to the role
   of the profile read and monthlyUsage the user's usage of the current
   month. *)
C6_RemainingAndOver ==
    StatusReturned =>
        LET limit == ApplicableLimit(ret.userData)
            st == ret.status
        IN  /\ st.monthlyUsage = CurrentMonthUsage
            /\ st.remainingBudget = limit - st.monthlyUsage
            /\ st.isOverBudget = (st.monthlyUsage > limit)
            /\ st.isOverBudget = (st.remainingBudget < 0)

(* The usage equals a positive limit exactly: nothing remains and the budget
   is not over *)
C6_Witness ==
    /\ StatusReturned
    /\ ApplicableLimit(ret.userData) > 0
    /\ ret.status.monthlyUsage = ApplicableLimit(ret.userData)
    /\ ret.status.remainingBudget = 0
    /\ ~ret.status.isOverBudget

(* C7: with an applicable limit of 0 the status has usagePercentage = 0,
   remainingBudget = -monthlyUsage and isOverBudget = (monthlyUsage > 0). *)
C7_ZeroLimit ==
    (StatusReturned /\ ApplicableLimit(ret.userData) = 0) =>
        /\ ret.status.usagePercentage = [num |-> 0, den |-> 1]
        /\ ret.status.remainingBudget = 0 - ret.status.monthlyUsage
        /\ ret.status.isOverBudget = (ret.status.monthlyUsage > 0)

(* A stored limit of 0 met a positive usage *)
C7_Witness ==
    /\ StatusReturned
    /\ ret.userData.type = Some("driver")
    /\ ret.userData.monthlyFuelLimit = Some(0)
    /\ ret.userData.personalBudget = Some(100)
    /\ ret.status.monthlyUsage > 0
    /\ ret.status.isOverBudget

(* C8: the limit is monthlyFuelLimit exactly when the stored role is
   'driver' and personalBudget for every other role, a missing or unknown
   one included; the other budget field has no influence on the percentage,
   the remaining amount or the over-budget flag. *)
C8_LimitByRole ==
    StatusReturned =>
        LET doc == ret.userData
            st == ret.status
            driver == doc.type = Some("driver")
            active == IF driver THEN NumberOrZero(doc.monthlyFuelLimit)
                      ELSE NumberOrZero(doc.personalBudget)
        IN  /\ st.isBusinessUser = driver
            /\ st.remainingBudget = active - st.monthlyUsage
            /\ st.isOverBudget = (st.monthlyUsage > active)
            /\ active > 0 => st.usagePercentage.num * active
                               = st.monthlyUsage * 100 * st.usagePercentage.den
            /\ \A v \in OptionalNumbers :
                  LET other == IF driver THEN [doc EXCEPT !.personalBudget = v]
                               ELSE [doc EXCEPT !.monthlyFuelLimit = v]
                      st2 == budgetStatus(other, st.monthlyUsage)
                  IN  /\ st2.usagePercentage = st.usagePercentage
                      /\ st2.remainingBudget = st.remainingBudget
                      /\ st2.isOverBudget = st.isOverBudget

(* A profile of an unknown role with both budget fields stored, the limit
   field smaller than the usage and the personal budget larger *)
C8_Witness ==
    /\ StatusReturned
    /\ ret.userData.type = Some("admin")
    /\ ret.userData.personalBudget = Some(100)
    /\ ret.userData.monthlyFuelLimit = Some(0)
    /\ ret.status.monthlyUsage = 40
    /\ ~ret.status.isOverBudget

(* C9: with an empty user identifier calculateMonthlyUsage returns 0 without
   raising and without a store read, and getMonthlyBudgetStatus and
   getBudgetAlerts raise and return no status. *)
C9_EmptyUserId ==
    (ret.op /= "none" /\ ret.userId = "") =>
        /\ ret.reads = 0
        /\ ret.op = "usage" => (ret.outcome = "value" /\ ret.value = 0)
        /\ ret.op \in {"status", "alerts"} =>
              /\ ret.outcome = "error"
              /\ ret.error = "undefined userId"
              /\ ret.status = NoStatus
              /\ ret.alerts = <<>>

(* getBudgetAlerts raised for the empty identifier while a trip of the
   current month is stored under it *)
C9_Witness ==
    /\ ret.op = "alerts" /\ ret.userId = ""
    /\ ret.outcome = "error"
    /\ \E i \in 1..Len(trips) :
          trips[i].userId = "" /\ StartsIn(trips[i], MonthAt(now), YearAt(now))

(* C10: getMonthlyBudgetStatus with a non-empty identifier that has no
   profile in the store raises 'User not found' once the profile read
   answers, and returns no status, whatever trips are stored under the
   identifier. *)
C10_UserNotFound ==
    (/\ ret.op \in {"status", "alerts"}
     /\ ret.userId /= ""
     /\ ~getDoc(ret.userId).exists) =>
        /\ ret.outcome = "error"
        /\ ret.error \in {"User not found", "store"}
        /\ ret.reads = 1
        /\ ret.status = NoStatus
        /\ ret.alerts = <<>>

(* 'User not found' was raised for an identifier that has a trip of the
   current month stored *)
C10_Witness ==
    /\ ret.op = "status" /\ ret.userId /= ""
    /\ ret.error = "User not found"
    /\ \E i \in 1..Len(trips) :
          /\ trips[i].userId = ret.userId
          /\ StartsIn(trips[i], MonthAt(now), YearAt(now))

-----------------------------------------------------------------------------
(* C11: if the store read of the user's trips fails during
   calculateMonthlyUsage, the call yields the default value 0 and no
   exception crosses to the caller: every completed call of
   calculateMonthlyUsage, a call whose read of the trips was rejected
   included, has returned a value. *)
C11_UsageNeverRaises ==
    ret.op = "usage" => (ret.outcome = "value" /\ ret.error = "none")

-----------------------------------------------------------------------------
(* Reference definitions for the alerts *)

AlertsReturned == ret.op = "alerts" /\ ret.outcome = "value"

AlertKinds == {ret.alerts[i].kind : i \in 1..Len(ret.alerts)}

(* usage / limit * 100 lies in [lo, hi) resp. [lo, hi], for a positive limit *)
PercentIn(usage, limit, lo, hi) ==
    limit > 0 /\ usage * 100 >= lo * limit /\ usage * 100 < hi * limit

PercentWithin(usage, limit, lo, hi) ==
    limit > 0 /\ usage * 100 >= lo * limit /\ usage * 100 <= hi * limit

(* The user had no trip of the current month when the call read the trips *)
NoTripThisMonth ==
    TripsOfMonth(ret.userId, MonthAt(ret.currentDate), YearAt(ret.currentDate)) = {}

-----------------------------------------------------------------------------
(* C12: getBudgetAlerts returns at most one alert: 'exceeded', 'nearly
   exceeded' and 'monitor spending' never appear together, and from 90% on
   'monitor spending' is not returned. *)
C12_AtMostOneAlert ==
    AlertsReturned =>
        /\ Len(ret.alerts) <= 1
        /\ Cardinality(AlertKinds) <= 1
        /\ AtLeast(ret.status.usagePercentage, 90)
              => "monitor spending" \notin AlertKinds

(* At 95% exactly the 'nearly exceeded' alert was returned *)
C12_Witness ==
    /\ AlertsReturned
    /\ ret.status.usagePercentage = [num |-> 95, den |-> 1]
    /\ ret.alerts = << [kind |-> "nearly exceeded", amount |-> 95] >>

(* C13: when the usage does not exceed the limit, getBudgetAlerts returns
   the 'nearly exceeded' alert for a percentage from 90 up to and including
   100 and the 'monitor spending' alert for a percentage from 75 inclusive up
   to 90 exclusive; limit 100 with a usage of 75 gives percentage 75,
   remaining 25 and exactly 'monitor spending'. *)
C13_NearlyAndMonitor ==
    (AlertsReturned /\ ~(ret.status.monthlyUsage > ApplicableLimit(ret.userData))) =>
        LET usage == ret.status.monthlyUsage
            limit == ApplicableLimit(ret.userData)
        IN  /\ PercentWithin(usage, limit, 90, 100)
                  => AlertKinds = {"nearly exceeded"} /\ Len(ret.alerts) = 1
            /\ PercentIn(usage, limit, 75, 90)
                  => AlertKinds = {"monitor spending"} /\ Len(ret.alerts) = 1
            /\ (limit = 100 /\ usage = 75)
                  => /\ ret.status.usagePercentage = [num |-> 75, den |-> 1]
                     /\ ret.status.remainingBudget = 25
                     /\ ret.alerts = << [kind |-> "monitor spending", amount |-> 75] >>

(* Limit 100, trips costing 40 and 35 in the current month *)
C13_Witness ==
    /\ AlertsReturned
    /\ ApplicableLimit(ret.userData) = 100
    /\ Len(TripsRead) = 2
    /\ {CostOrZero(TripsRead[i]) : i \in 1..Len(TripsRead)} = {40, 35}
    /\ ret.status.monthlyUsage = 75
    /\ ret.alerts = << [kind |-> "monitor spending", amount |-> 75] >>

(* C14, as claimed: whenever the reported usage percentage is below 75,
   getBudgetAlerts returns an empty list, a limit of 0 included. *)
C14_Below75NoAlert ==
    (AlertsReturned /\ ~AtLeast(ret.status.usagePercentage, 75)) => ret.alerts = <<>>

(* C14, amended: ... and the usage does not exceed the applicable limit. *)
C14_Below75NotOverNoAlert ==
    (/\ AlertsReturned
     /\ ret.status.usagePercentage.num < 75 * ret.status.usagePercentage.den
     /\ ~(ret.status.monthlyUsage > ApplicableLimit(ret.userData)))
        => ret.alerts = <<>>

(* 70% of a positive limit were used and no alert was returned *)
C14_Witness ==
    /\ AlertsReturned
    /\ ApplicableLimit(ret.userData) = 100
    /\ ret.status.monthlyUsage = 70
    /\ ret.alerts = <<>>

(* C15: when the usage exceeds the applicable limit, getBudgetAlerts returns
   exactly the 'exceeded' alert, whose amount is usage - limit; a driver with
   monthlyFuelLimit 200 and usage 250 has isOverBudget, remaining -50 and an
   overage of 50. *)
C15_ExceededByOverage ==
    (AlertsReturned /\ ret.status.monthlyUsage > ApplicableLimit(ret.userData)) =>
        LET usage == ret.status.monthlyUsage
            limit == ApplicableLimit(ret.userData)
        IN  /\ ret.alerts = << [kind |-> "exceeded", amount |-> usage - limit] >>
            /\ (ret.userData.type = Some("driver") /\ limit = 200 /\ usage = 250)
                  => /\ ret.status.isOverBudget
                     /\ ret.status.remainingBudget = 0 - 50
                     /\ ret.alerts[1].amount = 50

(* The driver with monthlyFuelLimit 200 and usage 250 *)
C15_Witness ==
    /\ AlertsReturned
    /\ ret.userData.type = Some("driver")
    /\ ret.userData.monthlyFuelLimit = Some(200)
    /\ ret.status.monthlyUsage = 250
    /\ ret.alerts = << [kind |-> "exceeded", amount |-> 50] >>

(* C16: a user with no trips in the current month gets usage 0,
   percentage 0 and no alert, whatever budget or limit value has been
   stored. *)
C16_NoTripsNoAlert ==
    (AlertsReturned /\ NoTripThisMonth) =>
        /\ ret.status.monthlyUsage = 0
        /\ ret.status.usagePercentage = [num |-> 0, den |-> 1]
        /\ ret.alerts = <<>>

-----------------------------------------------------------------------------
(* Reference definitions for the separation of users *)

(* What the pending call c computes when the trips collection is ts *)
ResultOver(ts, c) ==
    LET usage == totalCost(getTrips(ts, c.userId), c.tMonth, c.tYear)
        status == budgetStatus(c.userData, usage)
    IN  << usage,
           IF c.op = "usage" THEN NoStatus ELSE status,
           IF c.op = "alerts" THEN budgetAlerts(status) ELSE <<>> >>

(* Trip collections that differ from ts only in trips of other users: those
   trips removed, repriced, or one more of them added *)
OtherTripsVaried(ts, userId) ==
    {SelectSeq(ts, LAMBDA trip : trip.userId = userId)}
    \cup {[i \in 1..Len(ts) |->
              IF ts[i].userId = userId THEN ts[i]
              ELSE [ts[i] EXCEPT !.cost = Some(99)]]}
    \cup {Append(ts, trip) : trip \in {t \in BudgetTripInputs : t.userId /= userId}}

(* Profiles another user may have *)
OtherDocs ==
    {NoDoc} \cup {UserDoc(type, pb, mfl) :
                     type \in ProfileTypes, pb \in OptionalNumbers,
                     mfl \in OptionalNumbers}

(* C18: the usage, budget status and alerts computed for user A depend only
   on A's trips and A's profile: the profile read for A is the same in every
   store that differs in the profile of another user B, and the completed
   call returns what it would return over every trip collection that differs
   only in trips of other users. *)
C18_OnlyOwnData ==
    [][ /\ (call.pc = "user" /\ call'.pc = "trips") =>
              \A B \in UserIds \ {call.userId}, d \in OtherDocs :
                  getDocFrom([users EXCEPT ![B] = d], call.userId) = call'.userData
        /\ (call.pc = "trips" /\ ret'.outcome = "value") =>
              \A ts \in OtherTripsVaried(trips, call.userId) :
                  ResultOver(ts, call) = <<ret'.value, ret'.status, ret'.alerts>>
      ]_vars

(* A status was returned for u1 while a trip of u2 starting in the same
   month was in the collection read *)
C18_Witness ==
    /\ StatusReturned
    /\ ret.userId = "u1"
    /\ ret.value > 0
    /\ \E i \in 1..Len(TripsRead) :
          /\ TripsRead[i].userId = "u2"
          /\ StartsIn(TripsRead[i], ret.tMonth, ret.tYear)

-----------------------------------------------------------------------------
(* C17: in every store state each user owns at most one stored vehicle with
   isActive = true, whatever addVehicle, updateVehicle, setActiveVehicle and
   deleteVehicle calls have been made and however their reads and writes
   interleaved. *)
C17_AtMostOneActive ==
    \A userId \in UserIds :
        Cardinality({id \in VehicleIds :
                        /\ vehicleDocs[id].status = "live"
                        /\ vehicleDocs[id].userId = userId
                        /\ vehicleDocs[id].isActive}) <= 1

-----------------------------------------------------------------------------
(* Reference definitions for the logout *)

IsPrefix(l, e) == Len(l) <= Len(e) /\ l = SubSeq(e, 1, Len(l))

Events(l) == {l[i] : i \in 1..Len(l)}

(* The order of a logout over n callbacks, the sign-out succeeding or
   failing *)
ExpectedLogs(n) ==
    LET calls == [i \in 1..n |-> "callback"]
    IN  { calls \o <<"disconnect", "signOut", "clear", "finally">>,
          calls \o <<"disconnect", "signOut", "disconnect", "clear", "finally">> }

(* The cells of the context the logout clears *)
ContextData(c) ==
    <<c.user, c.vehicles, c.activeVehicle, c.monthlyUsage, c.logoutCallbacks,
      c.isTrackingTrip>>

IsCleared(c) ==
    /\ c.user = None
    /\ c.vehicles = <<>>
    /\ c.activeVehicle = None
    /\ c.monthlyUsage = 0
    /\ c.logoutCallbacks = <<>>
    /\ c.isTrackingTrip = FALSE

(* C19: a logout calls every callback registered when it was called, then
   disconnects the OBD
   service, then requests the sign-out, and clears user, vehicles,
   activeVehicle, monthlyUsage, the callbacks and isTrackingTrip only after
   that: from the call of logout to the request of the sign-out no step
   changes these cells, and the callback list is emptied only by the step
   that follows callbacks, disconnect and sign-out. *)
C19_LogoutOrder ==
    [][ /\ \E e \in ExpectedLogs(Len(logoutCall'.callbacks)) : IsPrefix(log', e)
        /\ (logoutCall'.pc \in {"callbacks", "signOut", "await"}
            /\ logoutCall.pc /= "await")
              => ContextData(ctx') = ContextData(ctx)
        /\ (ctx.logoutCallbacks /= <<>> /\ ctx'.logoutCallbacks = <<>>)
              => /\ log' = log \o <<"clear">> \/ log' = log \o <<"disconnect", "clear">>
                 /\ Len(SelectSeq(log, LAMBDA e : e = "callback"))
                       = Len(logoutCall.callbacks)
                 /\ {"disconnect", "signOut"} \subseteq Events(log)
      ]_vars

(* Two callbacks, one of which throws, were called, the OBD service was
   disconnected, the sign-out succeeded and the state has just been cleared *)
C19_Witness ==
    /\ logoutCall.pc = "finally"
    /\ logoutCall.callbacks = <<"throws", "returns">>
    /\ log = <<"callback", "callback", "disconnect", "signOut", "clear">>
    /\ auth = None
    /\ IsCleared(ctx)

(* C20: when logout finishes, user is null, vehicles is empty, activeVehicle
   is null, monthlyUsage is 0, the callback list is empty, isTrackingTrip is
   false and obdService.disconnect() has been called in this logout, after
   the sign-out succeeded as well as after it failed; after a failed
   sign-out the OBD service is disconnected at that moment. *)
C20_FinishedCleared ==
    [][ (logoutCall.pc = "finally" /\ logoutCall'.pc = "idle") =>
            /\ IsCleared(ctx')
            /\ "disconnect" \in Events(log')
            /\ (auth' /= None => ~obdConnected')
      ]_vars

(* A logout over a registered callback has finished after the sign-out
   failed: Firebase still has the user signed in, the context is cleared *)
C20_Witness ==
    /\ logoutCall.pc = "idle"
    /\ log = <<"callback", "disconnect", "signOut", "disconnect", "clear", "finally">>
    /\ auth /= None
    /\ IsCleared(ctx)
    /\ ~obdConnected

-----------------------------------------------------------------------------
(* C21: an account that has signed in and whose stored profile is missing or
   has a type other than 'citizen' and 'driver' never becomes the session
   user: no step of the login or of the auth-state listener taken for such
   an account changes the profile store or sets the context's user. *)
C21_InvalidAccountStaysOut ==
    [][ (auth' /= None /\ LET userSnap == getDoc(auth'[1])
                          IN  ~(userSnap.exists /\ isValidUserType(userSnap)))
            => (users' = users /\ ctx'.user = None)
      ]_vars

-----------------------------------------------------------------------------
(* Reference definitions for the vehicles of the context *)

(* The first vehicle of a list, or null *)
FirstOrNull(vs) == IF vs = <<>> THEN None ELSE Some(vs[1])

IsActiveId(active, vehicleId) == active /= None /\ active[1].id = vehicleId

(* C22: when the context's deleteVehicle completes for the vehicle that is
   the active one, activeVehicle becomes the first vehicle remaining in the
   list, or null if none remains; when it completes for a vehicle that is
   not the active one, activeVehicle is unchanged; a failed store delete
   raises and leaves vehicles and activeVehicle unchanged. *)
C22_ActiveAfterDelete ==
    [][ /\ \A op \in pending :
              (op.kind = "deleteVehicle" /\ op \notin pending') =>
                  /\ (IsActiveId(op.active, op.vehicleId)
                      /\ IsActiveId(ctx.activeVehicle, op.vehicleId))
                        => ctx'.activeVehicle = FirstOrNull(ctx'.vehicles)
                  /\ (~IsActiveId(op.active, op.vehicleId)
                      /\ ~IsActiveId(ctx.activeVehicle, op.vehicleId))
                        => ctx'.activeVehicle = ctx.activeVehicle
        /\ (ret' /= ret /\ ret'.op = "deleteVehicle") =>
              /\ ret'.outcome = "error"
              /\ ctx' = ctx
              /\ vehicleDocs' = vehicleDocs
      ]_vars

(* C27: a non-null activeVehicle of the context has the id of a vehicle in
   the context's vehicles list. *)
C27_ActiveIsListed ==
    ctx.activeVehicle /= None =>
        \E i \in 1..Len(ctx.vehicles) : ctx.vehicles[i].id = ctx.activeVehicle[1].id

(* The live vehicles of the user that the store flags as active *)
FlaggedActive(userId) ==
    {id \in VehicleIds : /\ vehicleDocs[id].status = "live"
                         /\ vehicleDocs[id].userId = userId
                         /\ vehicleDocs[id].isActive}

(* C29: whenever no store operation is in flight, the vehicle the context
   holds as activeVehicle is the one vehicle of the user that the store
   flags isActive = true. *)
C29_ContextAgreesWithStore ==
    (pending = {} /\ logoutCall.pc = "idle" /\ ctx.user /= None
     /\ ctx.activeVehicle /= None)
        => FlaggedActive(ctx.user[1]) = {ctx.activeVehicle[1].id}

-----------------------------------------------------------------------------
(* C23: for the usage, the limits and the role of a returned budget status,
   the percentage the dashboard shows and the progress the profile screen
   shows equal the status's usagePercentage, 0 for a limit of 0 included. *)
C23_ScreensShowStatusPercentage ==
    StatusReturned =>
        LET st == ret.status
            isBusinessUser == ret.userData.type = Some("driver")
            monthlyLimit == OrDefault(ret.userData.monthlyFuelLimit, 0)
            personalBudget == OrDefault(ret.userData.personalBudget, 0)
        IN  /\ dashboardUsagePercentage(isBusinessUser, st.monthlyUsage,
                                        monthlyLimit, personalBudget)
                  = st.usagePercentage
            /\ getBudgetProgress(isBusinessUser, st.monthlyUsage,
                                 monthlyLimit, personalBudget)
                  = st.usagePercentage

-----------------------------------------------------------------------------
(* C24: whenever the context's user is null, vehicles is empty,
   activeVehicle is null and monthlyUsage is 0. *)
C24_NoUserNoData ==
    ctx.user = None =>
        (ctx.vehicles = <<>> /\ ctx.activeVehicle = None /\ ctx.monthlyUsage = 0)

(* C25: once a logout has cleared the local state, and as long as nobody has
   signed in again, vehicles stays empty, activeVehicle null and
   monthlyUsage 0, whatever request begun before the logout resolves. *)
C25_StaysCleared ==
    [][ (/\ "clear" \in Events(log)
         /\ logoutCall.pc \in {"finally", "idle"}
         /\ auth = None /\ auth' = None)
            => (ctx'.vehicles = <<>> /\ ctx'.activeVehicle = None
                /\ ctx'.monthlyUsage = 0)
      ]_vars


(* C26: a logout that has started keeps isLoggingOut = true until it
   finishes, and it never raises to its caller, whether a callback, the OBD
   disconnect or the sign-out fails *)
C26_LogoutNeverRaises ==
    /\ logoutCall.pc /= "idle" => ctx.isLoggingOut
    /\ "raise" \notin Events(log)


(* The step is the continuation of an update of the budget fields *)
BudgetUpdateResolves ==
    \E op \in pending :
        /\ op.kind \in {"updatePersonalBudget", "updateMonthlyLimit"}
        /\ pending' = pending \ {op}

(* The budget fields of the local user are those of the user's stored
   profile *)
LocalIsStored(c, us) ==
    c.user /= None =>
        /\ c.personalBudget = getDocFrom(us, c.user[1]).personalBudget
        /\ c.monthlyFuelLimit = getDocFrom(us, c.user[1]).monthlyFuelLimit

(* C28: after updatePersonalBudget or updateMonthlyLimit has changed the
   local user, the local budget fields equal the stored ones; a call that
   raises leaves the local user and the stored profile unchanged; a null
   user is never turned into a non-null one *)
C28_LocalEqualsStored ==
    [][ /\ BudgetUpdateResolves
            => (LocalIsStored(ctx', users') /\ (ctx.user = None => ctx'.user = None))
        /\ (ret' /= ret /\ ret'.outcome = "error"
             /\ ret'.op \in {"updatePersonalBudget", "updateMonthlyLimit"})
            => (ctx' = ctx /\ users' = users)
      ]_vars

====
